---------------------------- MODULE Spec2Model ----------------------------
(***************************************************************************)
(* Model of AirMonitor.py: the sampling / reporting / display / throttled  *)
(* upload loop of the Raspberry Pi air monitor, together with the          *)
(* __main__ block that constructs the monitor, runs the loop and cleans up.*)
(*                                                                         *)
(* Numbers: sensor values and calibration offsets are carried in tenths,   *)
(* values handed to _FormatResult in hundredths (so that c * 9/5 + 32 is   *)
(* exact).  Formatted values are sequences of one-character strings.       *)
(* Time is in seconds.                                                     *)
(***************************************************************************)
EXTENDS Integers, Sequences, FiniteSets, TLC

(***************************************************************************)
(* Bounds of the model.                                                    *)
(***************************************************************************)
MaxTime == 120
(* at most this many of the three channels get an answer other than "ok"   *)
(* from the telemetry client within one publish pass                       *)
MaxFaultyKeys == 1
(* _FormatResult alone is applied to n * 10^x for                         *)
(* -MaxFraction <= x <= MaxExp                                             *)
MaxExp == 12

(* most decimal places of an argument of the formatter *)
MaxFraction == 5

(* seconds in a minute: datetime.timedelta(minutes=...) *)
SecondsPerMinute == 60

(* Python's None where a formatted value (a sequence of characters) may be *)
None == <<"None">>

(* an optional timestamp: Unset, or At(t) *)
Unset == <<>>
At(t) == <<t>>
TimeOf(ts) == ts[1]

(* no exception *)
NoError == "none"

(***************************************************************************)
(* Inputs the environment can supply.                                      *)
(***************************************************************************)
FlagValues == {"y", "N"}
SensorTypes == {"DHT11", "DHT22"}
UpdateIntervals == {30}
UploadIntervals == {2}
TemperatureCalibrations == {5}
HumidityCalibrations == {-10}
RawTemperatures == {220, 1000}
RawHumidities == {500}
UploadLatencies == {0, 30}
(* the integers n of the arguments n * 10^x given to _FormatResult alone;  *)
(* 1005 and 1035 are decimal ties at the third significant digit wherever  *)
(* the argument has a fraction                                             *)
FormatValues ==
    {0, 1, 5, 15, 21, 100, 150, 999, 1005, 1035, 1234, 21456, 99961, -5, -150}

(***************************************************************************)
(* str.upper() on the configuration flag values.                           *)
(***************************************************************************)
Upper(s) ==
    CASE s = "y" -> "Y"
      [] s = "n" -> "N"
      [] OTHER -> s

Enabled(flag) == Upper(flag) = "Y"

(***************************************************************************)
(* _FormatResult: '{0:.3g}'.format(v), then rstrip('0') when the text      *)
(* contains a '.'.  The argument is the value in hundredths.               *)
(***************************************************************************)
DigitChars == <<"0", "1", "2", "3", "4", "5", "6", "7", "8", "9">>

Abs(n) == IF n < 0 THEN -n ELSE n

RECURSIVE Pow10(_)
Pow10(k) == IF k <= 0 THEN 1 ELSE 10 * Pow10(k - 1)

RECURSIVE NatStr(_)
NatStr(n) ==
    IF n < 10 THEN <<DigitChars[n + 1]>>
    ELSE Append(NatStr(n \div 10), DigitChars[(n % 10) + 1])

RECURSIVE RStrip(_, _)
RStrip(s, ch) ==
    IF s = <<>> THEN s
    ELSE IF s[Len(s)] = ch THEN RStrip(SubSeq(s, 1, Len(s) - 1), ch)
    ELSE s

RECURSIVE Zeros(_)
Zeros(k) == IF k <= 0 THEN <<>> ELSE <<"0">> \o Zeros(k - 1)

Contains(s, ch) == \E i \in 1..Len(s) : s[i] = ch

RECURSIVE Pow5(_)
Pow5(k) == IF k <= 0 THEN 1 ELSE 5 * Pow5(k - 1)

(* floor(log2(q)), q >= 1 *)
RECURSIVE Log2(_)
Log2(q) == IF q < 2 THEN 0 ELSE 1 + Log2(q \div 2)

(* the least g with 2^g >= c *)
RECURSIVE CeilLog2(_)
CeilLog2(c) == IF c <= 1 THEN 0 ELSE 1 + CeilLog2((c + 1) \div 2)

RECURSIVE Pow2(_)
Pow2(k) == IF k <= 0 THEN 1 ELSE 2 * Pow2(k - 1)

(* (r * 2^t) % m for 0 <= r < m < 2^15, sixteen bits at a time so that no  *)
(* product leaves 32 bits                                                  *)
RECURSIVE ShiftMod(_, _, _)
ShiftMod(r, t, m) ==
    IF t <= 16 THEN (r * Pow2(t)) % m
    ELSE ShiftMod((r * Pow2(16)) % m, t - 16, m)

(* floor(log2(a / m)) for a >= 1 and an odd m *)
Exponent2(a, m) ==
    IF a >= m THEN Log2(a \div m)
    ELSE -CeilLog2(IF m % a = 0 THEN m \div a ELSE (m \div a) + 1)

(* where the integer nearest to a quotient lies, the division by the odd   *)
(* m leaving the remainder r: 0 on the quotient, -1 below it, 1 above it   *)
NearestSide(r, m) == IF r = 0 THEN 0 ELSE IF r < m - r THEN -1 ELSE 1

(* The argument of format is a binary double: the double nearest to        *)
(* a * 10^x, a >= 1.  FloatError is the sign of (that double - a * 10^x).  *)
(* For x >= 0 the product is an integer below 2^53 and the double is       *)
(* exact.  For x < 0 the 53-bit mantissa is a * 2^t / 5^(-x) rounded to    *)
(* the nearest integer, with t chosen so that the quotient lies in         *)
(* [2^52, 2^53); the remainder of that division tells the direction.       *)
(* Defined for x >= -MaxFraction - 1, where 5^(-x) < 2^15.                 *)
MantissaSide(a, m) ==
    NearestSide(ShiftMod(a % m, 52 - Exponent2(a, m), m), m)

FloatError(a, x) == IF x >= 0 THEN 0 ELSE MantissaSide(a, Pow5(-x))

(* the three significant digits (100..999) and the decimal exponent of     *)
(* float(a * 10^x) / 10^x after rounding to three significant digits, as   *)
(* '.3g' rounds: to the nearest, and on a decimal tie to the side the      *)
(* double lies on (to the even digit when the double is exact); a >= 1     *)
Sig3(a, x) ==
    LET nd == Len(NatStr(a))
        e0 == nd - 3
    IN  IF nd <= 3
        THEN [m |-> a * Pow10(3 - nd), e |-> e0]
        ELSE LET unit == Pow10(nd - 3)
                 q == a \div unit
                 r == a % unit
                 up == \/ 2 * r > unit
                       \/ /\ 2 * r = unit
                          /\ FloatError(a, x) + (q % 2) > 0
                 m0 == IF up THEN q + 1 ELSE q
             IN  IF m0 = 1000 THEN [m |-> 100, e |-> e0 + 1]
                 ELSE [m |-> m0, e |-> e0]

(* '{0:.3g}'.format(n * 10^x) *)
FormatG3At(n, x) ==
    IF n = 0 THEN <<"0">>
    ELSE
      LET sg == Sig3(Abs(n), x)
          d == NatStr(sg.m)
          e == sg.e + 2 + x
          sign == IF n < 0 THEN <<"-">> ELSE <<>>
          point(frac) == IF frac = <<>> THEN <<>> ELSE <<".">> \o frac
      IN  IF -4 <= e /\ e < 3
          THEN (* fixed notation, insignificant trailing zeros removed *)
               IF e >= 0
               THEN sign \o SubSeq(d, 1, e + 1)
                         \o point(RStrip(SubSeq(d, e + 2, 3), "0"))
               ELSE sign \o <<"0">> \o point(RStrip(Zeros(-e - 1) \o d, "0"))
          ELSE (* exponent notation, at least two exponent digits *)
               sign \o <<d[1]>> \o point(RStrip(SubSeq(d, 2, 3), "0"))
                    \o <<"e", IF e < 0 THEN "-" ELSE "+">>
                    \o (IF Abs(e) < 10 THEN <<"0">> ELSE <<>>) \o NatStr(Abs(e))

(* '{0:.3g}'.format(n / 100) *)
FormatG3(n) == FormatG3At(n, -2)

(* _FormatResult of n * 10^x *)
_FormatResultAt(n, x) ==
    LET value == FormatG3At(n, x)
    IN  IF Contains(value, ".") THEN RStrip(value, "0") ELSE value

_FormatResult(unformatted_value) == _FormatResultAt(unformatted_value, -2)

(* _ctof on a temperature in tenths, result in hundredths:                 *)
(* (c * 9/5) + 32                                                          *)
_ctof(celsius_temperature) == (celsius_temperature * 18) + 3200


(***************************************************************************)
(* State.                                                                  *)
(***************************************************************************)
VARIABLES
    pc,                     \* position of the single thread of control
    config,                 \* content of AirMonitor.cfg
    temperature_celsius,    \* self.temperature_celsius
    temperature_fahrenheit, \* self.temperature_fahrenheit
    humidity,               \* self.humidity
    adafruit_last_upload,   \* self.adafruit_last_upload
    now,                    \* datetime.datetime.now(), in seconds
    pending,                \* exception in flight, or NoError
    exit_error,             \* exception that reached the process boundary
    gpio,                   \* state of the GPIO library: "unset", "BCM", "cleaned"
    cleanup_calls,          \* number of calls of Cleanup
    trace,                  \* collaborator calls and steps of the current iteration
    fmt,                    \* argument and result of a call of _FormatResult alone
    hist                    \* observations kept for the properties

vars == <<fmt, pc, config, temperature_celsius, temperature_fahrenheit, humidity,
          adafruit_last_upload, now, pending, exit_error, gpio, cleanup_calls,
          trace, hist>>

reading == <<temperature_celsius, temperature_fahrenheit, humidity>>

Configs ==
    [sensor_type : SensorTypes,
     display_enabled : FlagValues,
     adafruit_enabled : FlagValues,
     console_enabled : FlagValues,
     update_interval : UpdateIntervals,
     upload_interval : UploadIntervals,
     temperature_calibration : TemperatureCalibrations,
     humidity_calibration : HumidityCalibrations]

(* one recorded call or step *)
Ev(op, arg, val, res) ==
    [op |-> op, arg |-> arg, val |-> val, res |-> res, feed |-> "none"]
Step(name) == Ev("step", name, None, "ok")

NoHist ==
    [started |-> FALSE,      \* Run has been entered
     before |-> <<None, None, None>>, \* reading before this iteration's sample
     sample |-> "none",      \* "valid" / "invalid" / "raised" for this iteration
     pass |-> FALSE,         \* this iteration's AdafruitUpload entered a pass
     prev_pass |-> FALSE,    \* `pass` of the iteration before
     gate_now |-> Unset,     \* clock at the gate test of this iteration
     gate_last |-> Unset,    \* adafruit_last_upload at the gate test
     records |-> 0,          \* assignments to adafruit_last_upload in this pass
     pass_start |-> Unset,   \* clock at the start of the latest pass
     prev_start |-> Unset,   \* clock at the start of the pass before it
     prev_failed |-> FALSE,  \* the pass before the latest had a failing call
     last_failed |-> FALSE,  \* the latest pass had a failing call
     empty |-> "no",         \* "latest": the latest pass began with no reading;
                             \* "before": this iteration's pass had a reading
                             \* and the pass before it had none
     raw |-> <<>>,           \* <<temperature, humidity>> of the latest valid result
     pass_end |-> Unset,     \* clock when the latest pass returned or raised
     error |-> NoError,      \* exception that left the loop body
     error_at |-> "none",    \* step whose error left the loop body
     late |-> "none"]        \* where a stop request arrived after the loop
                             \* was left: "except", "finally", "propagate"

NoFormat == [value |-> 0, exp |-> 0, text |-> <<>>]

(* the process before AirMonitor() is called *)
Init ==
    /\ fmt = NoFormat
    /\ pc = "start"
    /\ config \in Configs
    /\ temperature_celsius = None
    /\ temperature_fahrenheit = None
    /\ humidity = None
    /\ adafruit_last_upload = Unset
    /\ now = 0
    /\ pending = NoError
    /\ exit_error = NoError
    /\ gpio = "unset"
    /\ cleanup_calls = 0
    /\ trace = <<>>
    /\ hist = NoHist

(***************************************************************************)
(* Log: prints only when console logging is enabled.                       *)
(***************************************************************************)
Log(message) ==
    Ev("Log", message.text, message.val,
       IF Enabled(config.console_enabled) THEN "printed" ELSE "dropped")

Msg(text, val) == [text |-> text, val |-> val]

(* an exception leaving Run: `except Exception: raise` catches and        *)
(* re-raises every Exception; KeyboardInterrupt goes straight to finally   *)
IsException(exc) == exc # "KeyboardInterrupt"

(* variant: cleanup only in the except clause, no finally *)
RaiseTargetNoFinally(exc) == IF IsException(exc) THEN "except" ELSE "exited"

RaiseTarget(exc) == IF IsException(exc) THEN "except" ELSE "finally"

(* the loop body left by an exception raised in `step` *)
Raise(exc, step) ==
    /\ pc' = RaiseTarget(exc)
    /\ pending' = exc
    /\ hist' = [hist EXCEPT !.error_at = step, !.error = exc]

(* How a call can end other than by returning: the collaborator raises, or *)
(* a SIGINT is delivered while the call is running, which Python raises as *)
(* KeyboardInterrupt in the statement that made the call.  A call of Log   *)
(* ends by "interrupted" when the SIGINT is handled inside Log before it   *)
(* has printed or dropped the message.                                     *)
PrintFaults == {"IOError", "SIGINT"}
LCDFaults == {"IOError", "SIGINT"}

Faults(ev) ==
    CASE ev.op = "Log" ->
            IF ev.res = "printed" THEN PrintFaults \cup {"interrupted"}
            ELSE {"interrupted"}
      [] ev.op \in {"lcd_clear", "lcd_display_string"} -> LCDFaults
      [] ev.op \in {"feeds", "create_feed", "send_data", "GPIO.cleanup"} ->
            {"SIGINT"}
      [] OTHER -> {}

(* the exception a call that ended by `res` raises in its caller *)
Raised(res) ==
    CASE res \in {"SIGINT", "interrupted"} -> "KeyboardInterrupt"
      [] res \in {"RequestError404", "RequestError403"} -> "RequestError"
      [] OTHER -> res

(* the calls made when the k-th of `calls` ends by `res` *)
CutAt(calls, k, res) ==
    SubSeq(calls, 1, k - 1) \o <<[calls[k] EXCEPT !.res = res]>>

(* The ways a method that would make `calls` is left before it returns:    *)
(* its k-th call ends by a fault, or a SIGINT is handled in the method     *)
(* itself when k of its calls have returned (k = 0: before the first; all  *)
(* of them: before the method's own last statement has run).               *)
EarlyEnds(calls) ==
    UNION {{[calls |-> CutAt(calls, k, f), raised |-> Raised(f)] :
              f \in Faults(calls[k])} : k \in 1..Len(calls)}
    \cup {[calls |-> SubSeq(calls, 1, k), raised |-> "KeyboardInterrupt"] :
             k \in 0..Len(calls)}

(***************************************************************************)
(* SetupSesnors / __init__ / start of __main__                             *)
(***************************************************************************)
(* variant: the sensor type is not checked *)
SetupSesnorsAnyType(type) == "ok"

SetupSesnors(type) == IF type = "DHT11" THEN "ok" ELSE "Exception"

(* variant: the monitor is constructed inside the try block *)
ConstructInsideTry ==
    /\ pc = "start"
    /\ gpio' = "BCM"
    /\ temperature_celsius' = None
    /\ temperature_fahrenheit' = None
    /\ humidity' = None
    /\ adafruit_last_upload' = Unset
    /\ IF SetupSesnors(config.sensor_type) = "ok"
       THEN /\ pc' = "sample"
            /\ hist' = [hist EXCEPT !.started = TRUE]
            /\ UNCHANGED <<pending, exit_error>>
       ELSE /\ pc' = "except"
            /\ pending' = SetupSesnors(config.sensor_type)
            /\ UNCHANGED <<hist, exit_error>>
    /\ UNCHANGED <<fmt, config, now, cleanup_calls, trace>>

(* how lcddriver.lcd() of line 35 can end other than by returning *)
LCDSetupFaults == {"IOError"}

(* the GPIO mode when a SIGINT ends __init__: before line 28 has set it,   *)
(* or after                                                                *)
InitInterruptModes == {"unset", "BCM"}

(* the process ends in `monitor = AirMonitor()`, outside the try statement *)
ConstructFails(exc, mode) ==
    /\ pc' = "exited"
    /\ pending' = NoError
    /\ exit_error' = exc
    /\ gpio' = mode
    /\ UNCHANGED hist

Construct ==
    /\ pc = "start"
    /\ temperature_celsius' = None
    /\ temperature_fahrenheit' = None
    /\ humidity' = None
    /\ adafruit_last_upload' = Unset
    /\ \/ IF SetupSesnors(config.sensor_type) = "ok"
          THEN /\ pc' = "sample"
               /\ gpio' = "BCM"
               /\ hist' = [hist EXCEPT !.started = TRUE]
               /\ UNCHANGED <<pending, exit_error>>
          ELSE ConstructFails(SetupSesnors(config.sensor_type), "BCM")
       \/ (* the display driver cannot be set up *)
          \E fault \in LCDSetupFaults :
             /\ SetupSesnors(config.sensor_type) = "ok"
             /\ Enabled(config.display_enabled)
             /\ ConstructFails(Raised(fault), "BCM")
       \/ (* a SIGINT while __init__ runs, or when it has returned and the *)
          (* try statement is not yet entered                              *)
          \E mode \in InitInterruptModes :
             ConstructFails("KeyboardInterrupt", mode)
    /\ UNCHANGED <<fmt, config, now, cleanup_calls, trace>>



(***************************************************************************)
(* Run: the order of the calls in one iteration of `while True`.           *)
(***************************************************************************)
(* variant: the upload comes before the display update *)
NextStepUploadFirst(step, cfg) ==
    CASE step = "sample" -> "report"
      [] step = "report" -> "upload"
      [] step = "upload" ->
            IF Enabled(cfg.display_enabled) THEN "display" ELSE "sleep"
      [] step = "display" -> "sleep"
      [] step = "sleep" -> "sample"

NextStep(step, cfg) ==
    CASE step = "sample" -> "report"
      [] step = "report" ->
            IF Enabled(cfg.display_enabled) THEN "display" ELSE "upload"
      [] step = "display" -> "upload"
      [] step = "upload" -> "sleep"
      [] step = "sleep" -> "sample"

(***************************************************************************)
(* GetEnvironmentMetrics / DHT11Read                                       *)
(***************************************************************************)
SensorErrorCodes == {1, 2}

SensorResults ==
    [valid : {FALSE}, temperature : {0}, humidity : {0},
     error_code : SensorErrorCodes]
    \cup
    [valid : {TRUE}, temperature : RawTemperatures, humidity : RawHumidities,
     error_code : {0}]

ErrorMessage(code) ==
    IF code = 1 THEN "DHT11 Error: 1" ELSE "DHT11 Error: 2"

(* variant: an invalid result clears the stored reading *)
DHT11ReadClearing(result, cfg, old) ==
    IF result.valid
    THEN LET corrected_temperature ==
                 result.temperature + cfg.temperature_calibration
             corrected_humidity ==
                 result.humidity + cfg.humidity_calibration
         IN  <<_FormatResult(10 * corrected_temperature),
               _FormatResult(_ctof(corrected_temperature)),
               _FormatResult(10 * corrected_humidity)>>
    ELSE <<None, None, None>>

(* a temperature in tenths rounded to three significant digits *)
Round3(t) ==
    IF t = 0 THEN 0
    ELSE LET sg == Sig3(10 * Abs(t), -2)
             r == IF sg.e >= 0 THEN (sg.m * Pow10(sg.e)) \div 10
                  ELSE sg.m \div Pow10(1 - sg.e)
         IN  IF t < 0 THEN -r ELSE r

(* variant: fahrenheit is converted from the formatted celsius *)
DHT11ReadFromFormatted(result, cfg, old) ==
    IF result.valid
    THEN LET corrected_temperature ==
                 result.temperature + cfg.temperature_calibration
             corrected_humidity ==
                 result.humidity + cfg.humidity_calibration
         IN  <<_FormatResult(10 * corrected_temperature),
               _FormatResult(_ctof(Round3(corrected_temperature))),
               _FormatResult(10 * corrected_humidity)>>
    ELSE old

(* variant: a valid result does not store the humidity *)
DHT11ReadNoHumidity(result, cfg, old) ==
    IF result.valid
    THEN LET corrected_temperature ==
                 result.temperature + cfg.temperature_calibration
         IN  <<_FormatResult(10 * corrected_temperature),
               _FormatResult(_ctof(corrected_temperature)),
               old[3]>>
    ELSE old

(* the reading <<celsius, fahrenheit, humidity>> after DHT11Read got       *)
(* `result` from the driver, `old` being the reading before                *)
DHT11Read(result, cfg, old) ==
    IF result.valid
    THEN LET corrected_temperature ==
                 result.temperature + cfg.temperature_calibration
             corrected_humidity ==
                 result.humidity + cfg.humidity_calibration
         IN  <<_FormatResult(10 * corrected_temperature),
               _FormatResult(_ctof(corrected_temperature)),
               _FormatResult(10 * corrected_humidity)>>
    ELSE old

(* what DHT11Read logs *)
DHT11ReadLog(result) ==
    IF result.valid THEN <<>>
    ELSE <<Log(Msg(ErrorMessage(result.error_code), None))>>

(* the per-iteration observations start afresh *)
IterationHist(kind) ==
    [hist EXCEPT !.before = reading, !.sample = kind, !.pass = FALSE,
                 !.prev_pass = hist.pass,
                 !.empty = IF hist.empty = "before" THEN "no" ELSE hist.empty,
                 !.gate_now = Unset, !.gate_last = Unset, !.records = 0]

(* the reading when DHT11Read is left after the first j of its three       *)
(* assignments (lines 119, 121, 123), `new` being what it would store      *)
StoredAfter(old, new, j) == [i \in 1..3 |-> IF i <= j THEN new[i] ELSE old[i]]

(* the three fields of the monitor become `new` *)
Store(new) ==
    /\ temperature_celsius' = new[1]
    /\ temperature_fahrenheit' = new[2]
    /\ humidity' = new[3]

ReadCall(res) == Ev("read", "dht11", None, res)

(* how the driver's read() can end other than by returning a result *)
ReadFaults == {"RuntimeError", "SIGINT"}

GetEnvironmentMetrics ==
    /\ pc = "sample"
    /\ \/ \E result \in SensorResults :
            /\ Store(DHT11Read(result, config, reading))
            /\ trace' = <<Step("sample"),
                          ReadCall(IF result.valid THEN "valid"
                                   ELSE "invalid")>>
                        \o DHT11ReadLog(result)
            /\ hist' = [IterationHist(IF result.valid THEN "valid"
                                      ELSE "invalid")
                          EXCEPT !.raw = IF result.valid
                                         THEN <<result.temperature,
                                                result.humidity>>
                                         ELSE hist.raw]
            /\ pc' = NextStep("sample", config)
            /\ UNCHANGED pending
       \/ (* the driver's read() raises, or is interrupted *)
          \E res \in ReadFaults :
             /\ trace' = <<Step("sample"), ReadCall(res)>>
             /\ pc' = RaiseTarget(Raised(res))
             /\ pending' = Raised(res)
             /\ hist' = [IterationHist(IF res = "SIGINT" THEN "interrupted"
                                       ELSE "raised")
                           EXCEPT !.error_at = "sample", !.error = Raised(res)]
             /\ UNCHANGED <<temperature_celsius, temperature_fahrenheit,
                            humidity>>
       \/ (* a SIGINT before read() is called *)
          /\ trace' = <<Step("sample")>>
          /\ pc' = RaiseTarget("KeyboardInterrupt")
          /\ pending' = "KeyboardInterrupt"
          /\ hist' = [IterationHist("interrupted")
                        EXCEPT !.error_at = "sample",
                               !.error = "KeyboardInterrupt"]
          /\ UNCHANGED <<temperature_celsius, temperature_fahrenheit,
                         humidity>>
       \/ (* an invalid result, and a SIGINT before, in or after the call   *)
          (* of Log, or the print of the error message raises              *)
          \E result \in SensorResults :
             /\ ~result.valid
             /\ \E e \in EarlyEnds(DHT11ReadLog(result)) :
                   /\ trace' = <<Step("sample"), ReadCall("invalid")>>
                               \o e.calls
                   /\ pc' = RaiseTarget(e.raised)
                   /\ pending' = e.raised
                   /\ hist' = [IterationHist("invalid")
                                 EXCEPT !.error_at = "sample",
                                        !.error = e.raised]
             /\ UNCHANGED <<temperature_celsius, temperature_fahrenheit,
                            humidity>>
       \/ (* a SIGINT after the first j assignments of a valid result *)
          \E result \in SensorResults, j \in 0..3 :
             /\ result.valid
             /\ Store(StoredAfter(reading,
                                  DHT11Read(result, config, reading), j))
             /\ trace' = <<Step("sample"), ReadCall("valid")>>
             /\ pc' = RaiseTarget("KeyboardInterrupt")
             /\ pending' = "KeyboardInterrupt"
             /\ hist' = [IterationHist("interrupted")
                           EXCEPT !.error_at = "sample",
                                  !.error = "KeyboardInterrupt"]
    /\ UNCHANGED <<fmt, config, adafruit_last_upload, now, exit_error, gpio,
                   cleanup_calls>>

(***************************************************************************)
(* LogResults                                                              *)
(***************************************************************************)
ReportLines ==
    <<Log(Msg("timestamp", None)),
      Log(Msg("celsius", temperature_celsius)),
      Log(Msg("Fahrenheit", temperature_fahrenheit)),
      Log(Msg("Humidity", humidity))>>

LogResults ==
    /\ pc = "report"
    /\ \/ /\ trace' = trace \o <<Step("report")>> \o ReportLines
          /\ pc' = NextStep("report", config)
          /\ UNCHANGED <<pending, hist>>
       \/ (* the print of one of the lines raises, or a SIGINT arrives in  *)
          (* or between the four calls of Log                              *)
          \E e \in EarlyEnds(ReportLines) :
             /\ trace' = trace \o <<Step("report")>> \o e.calls
             /\ Raise(e.raised, "report")
    /\ UNCHANGED <<fmt, config, temperature_celsius, temperature_fahrenheit,
                   humidity, adafruit_last_upload, now, exit_error, gpio,
                   cleanup_calls>>

(***************************************************************************)
(* UpdateLCDDisplay                                                        *)
(***************************************************************************)
Line2 ==
    <<"T", "|">> \o temperature_fahrenheit \o <<"F", " ", "H", "|">>
                 \o humidity \o <<"%">>

(* variant: the display is not cleared before it is written *)
LCDCallsNoClear ==
    <<Ev("lcd_display_string", "1", None, "ok"),
      Ev("lcd_display_string", "2", Line2, "ok")>>

LCDCalls ==
    <<Ev("lcd_clear", "none", None, "ok"),
      Ev("lcd_display_string", "1", None, "ok"),
      Ev("lcd_display_string", "2", Line2, "ok")>>

UpdateLCDDisplay ==
    /\ pc = "display"
    /\ \/ /\ trace' = trace \o <<Step("display")>> \o LCDCalls
          /\ pc' = NextStep("display", config)
          /\ UNCHANGED <<pending, hist>>
       \/ (* one of the driver calls raises, or a SIGINT arrives in or     *)
          (* between them                                                  *)
          \E e \in EarlyEnds(LCDCalls) :
             /\ trace' = trace \o <<Step("display")>> \o e.calls
             /\ Raise(e.raised, "display")
    /\ UNCHANGED <<fmt, config, temperature_celsius, temperature_fahrenheit,
                   humidity, adafruit_last_upload, now, exit_error, gpio,
                   cleanup_calls>>


(***************************************************************************)
(* AdafruitUpload                                                          *)
(***************************************************************************)
(* the order in which `for key in values` visits the dict of GetValueDict  *)
Keys == <<"fahrenheit", "celsius", "humidity">>

KeySet == {"fahrenheit", "celsius", "humidity"}

(* variant: the two temperatures under each other's key *)
GetValueDictSwapped ==
    [key \in KeySet |->
        CASE key = "fahrenheit" -> temperature_celsius
          [] key = "celsius" -> temperature_fahrenheit
          [] key = "humidity" -> humidity]

GetValueDict ==
    [key \in KeySet |->
        CASE key = "fahrenheit" -> temperature_fahrenheit
          [] key = "celsius" -> temperature_celsius
          [] key = "humidity" -> humidity]

(* variant: every key is published *)
TruthyAlways(value) == TRUE

(* `if values[key]`: None and the empty string are false *)
Truthy(value) == value # None /\ value # <<>>

(* variant: the boundary instant does not open the gate *)
MayUploadStrict(last_upload, t, interval) ==
    \/ last_upload = Unset
    \/ t > TimeOf(last_upload) + interval * SecondsPerMinute

(* variant: the interval is taken in seconds instead of minutes *)
MayUploadSeconds(last_upload, t, interval) ==
    \/ last_upload = Unset
    \/ t >= TimeOf(last_upload) + interval

(* variant: the gate opens only while nothing has been uploaded *)
MayUploadOnce(last_upload, t, interval) == last_upload = Unset

(* the gate of lines 85-88 *)
MayUpload(last_upload, t, interval) ==
    \/ last_upload = Unset
    \/ t >= TimeOf(last_upload) + interval * SecondsPerMinute

(* what the Adafruit IO client can answer: feeds() and create_feed() and   *)
(* send_data() raise RequestError for an HTTP error status (404: no such   *)
(* feed; 403: request refused) and ThrottlingError for status 429          *)
LookupResults == {"ok", "RequestError404", "RequestError403", "ThrottlingError"}
CreateResults == {"ok", "RequestError403"}
SendResults == {"ok", "ThrottlingError"}

ExcClass(res) == Raised(res)

(* `except RequestError` *)
CaughtByExcept(res) == ExcClass(res) = "RequestError"

(* the answers of the client for one key; answers to calls that are not    *)
(* made are fixed to "ok"                                                  *)
KeyAnswers ==
    {a \in [lookup : LookupResults, create : CreateResults, send : SendResults] :
        /\ (a.lookup \in {"ok", "ThrottlingError"} => a.create = "ok")
        /\ (a.lookup = "ThrottlingError" \/ a.create # "ok" => a.send = "ok")}

AllOk == [lookup |-> "ok", create |-> "ok", send |-> "ok"]

Answers ==
    {a \in [KeySet -> KeyAnswers] :
        Cardinality({k \in KeySet : a[k] # AllOk}) <= MaxFaultyKeys}

(* the answers with which no call of a pass raises out of the pass *)
QuietAnswers ==
    {a \in Answers :
        \A key \in KeySet : /\ a[key].lookup # "ThrottlingError"
                            /\ a[key].create = "ok"
                            /\ a[key].send = "ok"}

SendCall(key, value, origin, res) ==
    [Ev("send_data", key, value, res) EXCEPT !.feed = origin]

(* variant: the value is sent only to a channel that the lookup found *)
KeyCallsNoSendAfterCreate(key, value, a) ==
    LET lookup == Ev("feeds", key, None, a.lookup)
        create == Ev("create_feed", key, None, a.create)
    IN  IF a.lookup = "ok"
        THEN [calls |-> <<lookup, SendCall(key, value, "found", a.send)>>,
              raised |-> IF a.send = "ok" THEN NoError ELSE ExcClass(a.send)]
        ELSE IF CaughtByExcept(a.lookup)
        THEN [calls |-> <<lookup, create>>,
              raised |-> IF a.create = "ok" THEN NoError
                         ELSE ExcClass(a.create)]
        ELSE [calls |-> <<lookup>>, raised |-> ExcClass(a.lookup)]

(* lines 94-100 for one key: the calls made, and the exception that leaves *)
(* them (NoError if none)                                                  *)
KeyCalls(key, value, a) ==
    LET lookup == Ev("feeds", key, None, a.lookup)
        create == Ev("create_feed", key, None, a.create)
    IN  IF a.lookup = "ok"
        THEN [calls |-> <<lookup, SendCall(key, value, "found", a.send)>>,
              raised |-> IF a.send = "ok" THEN NoError ELSE ExcClass(a.send)]
        ELSE IF CaughtByExcept(a.lookup)
        THEN IF a.create = "ok"
             THEN [calls |-> <<lookup, create,
                               SendCall(key, value, "created", a.send)>>,
                   raised |-> IF a.send = "ok" THEN NoError
                              ELSE ExcClass(a.send)]
             ELSE [calls |-> <<lookup, create>>, raised |-> ExcClass(a.create)]
        ELSE [calls |-> <<lookup>>, raised |-> ExcClass(a.lookup)]

(* lines 92-100: the loop over the keys from the i-th on *)
RECURSIVE Publish(_, _, _)
Publish(i, values, answers) ==
    IF i > Len(Keys) THEN [calls |-> <<>>, raised |-> NoError]
    ELSE LET key == Keys[i]
         IN  IF ~Truthy(values[key]) THEN Publish(i + 1, values, answers)
             ELSE LET this == KeyCalls(key, values[key], answers[key])
                  IN  IF this.raised # NoError THEN this
                      ELSE LET rest == Publish(i + 1, values, answers)
                           IN  [calls |-> this.calls \o rest.calls,
                                raised |-> rest.raised]

HasFailure(calls) == \E i \in 1..Len(calls) : calls[i].res # "ok"

(* what the properties keep of a pass that made `calls` and took `latency` *)
PassHist(calls, latency) ==
    [hist EXCEPT !.gate_now = At(now),
                 !.gate_last = adafruit_last_upload,
                 !.pass = TRUE,
                 !.prev_start = hist.pass_start,
                 !.pass_start = At(now),
                 !.pass_end = At(now + latency),
                 !.prev_failed = hist.last_failed,
                 !.last_failed = HasFailure(calls),
                 !.empty = IF reading = <<None, None, None>> THEN "latest"
                           ELSE IF hist.empty = "latest" THEN "before"
                           ELSE "no"]

AdafruitUpload ==
    /\ pc = "upload"
    /\ \/ IF ~Enabled(config.adafruit_enabled)
          THEN /\ trace' = trace \o <<Step("upload")>>
               /\ pc' = NextStep("upload", config)
               /\ UNCHANGED <<adafruit_last_upload, now, pending, hist>>
          ELSE IF ~MayUpload(adafruit_last_upload, now, config.upload_interval)
          THEN /\ trace' = trace \o <<Step("upload"),
                                      Ev("gate", "closed", None, "ok")>>
               /\ pc' = NextStep("upload", config)
               /\ hist' = [hist EXCEPT !.gate_now = At(now),
                                       !.gate_last = adafruit_last_upload]
               /\ UNCHANGED <<adafruit_last_upload, now, pending>>
          ELSE \E answers \in Answers, latency \in UploadLatencies :
                 LET pass == Publish(1, GetValueDict, answers)
                     h == PassHist(pass.calls, latency)
                 IN  /\ now + latency <= MaxTime
                     /\ now' = now + latency
                     /\ trace' = trace \o <<Step("upload"),
                                            Ev("gate", "open", None, "ok")>>
                                       \o pass.calls
                     /\ IF pass.raised = NoError
                        THEN /\ adafruit_last_upload' = At(now')
                             /\ hist' = [h EXCEPT !.records = 1]
                             /\ pc' = NextStep("upload", config)
                             /\ UNCHANGED pending
                        ELSE /\ UNCHANGED adafruit_last_upload
                             /\ hist' = [h EXCEPT !.error_at = "upload",
                                                   !.error = pass.raised]
                             /\ pc' = RaiseTarget(pass.raised)
                             /\ pending' = pass.raised
       \/ (* a SIGINT before the gate of lines 85-88 has been decided *)
          /\ trace' = trace \o <<Step("upload")>>
          /\ Raise("KeyboardInterrupt", "upload")
          /\ UNCHANGED <<adafruit_last_upload, now>>
       \/ (* a SIGINT when the gate has been decided: found closed; or in  *)
          (* a pass, while one of its calls is running, or between two of  *)
          (* them, or when the last has returned and line 101 has not yet  *)
          (* stored the time                                               *)
          IF ~Enabled(config.adafruit_enabled)
          THEN FALSE
          ELSE IF ~MayUpload(adafruit_last_upload, now, config.upload_interval)
          THEN /\ trace' = trace \o <<Step("upload"),
                                      Ev("gate", "closed", None, "ok")>>
               /\ pc' = RaiseTarget("KeyboardInterrupt")
               /\ pending' = "KeyboardInterrupt"
               /\ hist' = [hist EXCEPT !.gate_now = At(now),
                                       !.gate_last = adafruit_last_upload,
                                       !.error_at = "upload",
                                       !.error = "KeyboardInterrupt"]
               /\ UNCHANGED <<adafruit_last_upload, now>>
          ELSE \E answers \in QuietAnswers, latency \in UploadLatencies :
                 /\ now + latency <= MaxTime
                 /\ now' = now + latency
                 /\ \E e \in EarlyEnds(Publish(1, GetValueDict,
                                                answers).calls) :
                       /\ trace' = trace \o <<Step("upload"),
                                              Ev("gate", "open", None, "ok")>>
                                         \o e.calls
                       /\ hist' = [PassHist(e.calls, latency)
                                     EXCEPT !.error_at = "upload",
                                            !.error = e.raised]
                       /\ pc' = RaiseTarget(e.raised)
                       /\ pending' = e.raised
                 /\ UNCHANGED adafruit_last_upload
    /\ UNCHANGED <<fmt, config, temperature_celsius, temperature_fahrenheit,
                   humidity, exit_error, gpio, cleanup_calls>>

(***************************************************************************)
(* time.sleep(int(UPDATE_INTERVAL))                                        *)
(***************************************************************************)
Sleep ==
    /\ pc = "sleep"
    /\ trace' = trace \o <<Step("sleep")>>
    /\ \/ /\ now + config.update_interval <= MaxTime
          /\ now' = now + config.update_interval
          /\ pc' = NextStep("sleep", config)
          /\ UNCHANGED <<pending, hist>>
       \/ (* a SIGINT ends the sleep; the clock is not read again *)
          /\ Raise("KeyboardInterrupt", "sleep")
          /\ UNCHANGED now
    /\ UNCHANGED <<fmt, config, temperature_celsius, temperature_fahrenheit,
                   humidity, adafruit_last_upload, exit_error, gpio,
                   cleanup_calls>>

(***************************************************************************)
(* The stop request: SIGINT raises KeyboardInterrupt in the running thread *)
(* wherever it is.  Interrupt is the SIGINT that arrives in the module's   *)
(* own code or in Run between two steps; each method has its own cases for *)
(* the SIGINT that arrives while it runs.                                  *)
(***************************************************************************)
LoopPositions == {"sample", "report", "display", "upload", "sleep"}

Interrupt ==
    /\ \/ (* in Run, between two steps *)
          /\ pc \in LoopPositions
          /\ pc' = RaiseTarget("KeyboardInterrupt")
          /\ pending' = "KeyboardInterrupt"
          /\ hist' = [hist EXCEPT !.error_at = pc,
                                  !.error = "KeyboardInterrupt"]
          /\ UNCHANGED exit_error
       \/ (* before AirMonitor() is called: nothing is there to clean up *)
          /\ pc = "start"
          /\ pc' = "exited"
          /\ exit_error' = "KeyboardInterrupt"
          /\ UNCHANGED <<pending, hist>>
       \/ (* in the except clause: it replaces the exception in flight *)
          /\ pc = "except"
          /\ pc' = "finally"
          /\ pending' = "KeyboardInterrupt"
          /\ hist' = [hist EXCEPT !.late = "except"]
          /\ UNCHANGED exit_error
       \/ (* in the finally clause before Cleanup is called (the call is   *)
          (* not made), or after it has returned                           *)
          /\ pc \in {"finally", "propagate"}
          /\ pc' = "exited"
          /\ exit_error' = "KeyboardInterrupt"
          /\ pending' = NoError
          /\ hist' = [hist EXCEPT !.late = pc]
    /\ UNCHANGED <<fmt, config, temperature_celsius, temperature_fahrenheit,
                   humidity, adafruit_last_upload, now, gpio, cleanup_calls,
                   trace>>

(***************************************************************************)
(* __main__: except Exception: raise / finally: monitor.Cleanup()          *)
(***************************************************************************)
MainExcept ==
    /\ pc = "except"
    /\ pc' = "finally"
    /\ UNCHANGED <<fmt, config, temperature_celsius, temperature_fahrenheit,
                   humidity, adafruit_last_upload, now, pending, exit_error,
                   gpio, cleanup_calls, trace, hist>>

CleanupCalls ==
    <<Log(Msg("Shutting Down", None)), Ev("GPIO.cleanup", "none", None, "ok")>>

Cleanup ==
    /\ pc = "finally"
    /\ cleanup_calls' = cleanup_calls + 1
    /\ \/ /\ trace' = trace \o CleanupCalls
          /\ gpio' = "cleaned"
          /\ pc' = "propagate"
          /\ UNCHANGED <<pending, exit_error>>
       \/ (* the print of line 106 raises, or a SIGINT arrives in Cleanup:  *)
          (* the new exception replaces the one in flight and the process  *)
          (* ends; the GPIO is released only if GPIO.cleanup() had         *)
          (* returned                                                      *)
          \E e \in EarlyEnds(CleanupCalls) :
             /\ trace' = trace \o e.calls
             /\ exit_error' = e.raised
             /\ pending' = NoError
             /\ pc' = "exited"
             /\ gpio' = IF e.calls = CleanupCalls THEN "cleaned" ELSE gpio
    /\ UNCHANGED <<fmt, config, temperature_celsius, temperature_fahrenheit,
                   humidity, adafruit_last_upload, now, hist>>

(* the exception in flight leaves the finally clause and ends the process  *)
ProcessExit ==
    /\ pc = "propagate"
    /\ exit_error' = pending
    /\ pending' = NoError
    /\ pc' = "exited"
    /\ UNCHANGED <<fmt, config, temperature_celsius, temperature_fahrenheit,
                   humidity, adafruit_last_upload, now, gpio, cleanup_calls,
                   trace, hist>>

(***************************************************************************)
(* _FormatResult called on its own, on an argument drawn by FormatInit.    *)
(***************************************************************************)
FormatInit ==
    /\ fmt \in [value : FormatValues, exp : -MaxFraction..MaxExp, text : {<<>>}]
    /\ pc = "format"
    /\ config = CHOOSE c \in Configs : TRUE
    /\ temperature_celsius = None
    /\ temperature_fahrenheit = None
    /\ humidity = None
    /\ adafruit_last_upload = Unset
    /\ now = 0
    /\ pending = NoError
    /\ exit_error = NoError
    /\ gpio = "unset"
    /\ cleanup_calls = 0
    /\ trace = <<>>
    /\ hist = NoHist

FormatCall ==
    /\ pc = "format"
    /\ fmt' = [fmt EXCEPT !.text = _FormatResultAt(fmt.value, fmt.exp)]
    /\ pc' = "formatted"
    /\ UNCHANGED <<config, temperature_celsius, temperature_fahrenheit,
                   humidity, adafruit_last_upload, now, pending, exit_error,
                   gpio, cleanup_calls, trace, hist>>

FormatNext == FormatCall

FormatSpec == FormatInit /\ [][FormatNext]_vars

(***************************************************************************)
(* The loop with telemetry enabled, console logging off, a sensor type the *)
(* program knows, every call returning without an exception leaving its    *)
(* step, and no stop request.                                              *)
(* The gate of lines 85-88 compares now with adafruit_last_upload +        *)
(* interval, so only the difference of the two matters: the clock is       *)
(* counted from the instant of the latest upload.  Rebase moves its origin *)
(* there after a pass, before the loop sleeps, which lets the loop run for *)
(* ever inside 0..MaxTime.                                                 *)
(***************************************************************************)
LiveConfigs ==
    {c \in Configs : /\ Enabled(c.adafruit_enabled)
                     /\ ~Enabled(c.console_enabled)
                     /\ SetupSesnors(c.sensor_type) = "ok"}

LiveInit ==
    /\ Init
    /\ config \in LiveConfigs

(* the step returns: no exception leaves it *)
Returns == pending' = NoError /\ pc' \in LoopPositions

Shift(ts, d) == IF ts = Unset THEN Unset ELSE At(TimeOf(ts) - d)

(* the clock is counted from the latest upload, if there was one *)
Rebased == adafruit_last_upload \in {Unset, At(0)}

Rebase ==
    /\ pc = "sleep"
    /\ ~Rebased
    /\ LET d == TimeOf(adafruit_last_upload)
       IN  /\ now' = now - d
           /\ adafruit_last_upload' = At(0)
           /\ hist' = [hist EXCEPT !.gate_now = Shift(hist.gate_now, d),
                                   !.gate_last = Shift(hist.gate_last, d),
                                   !.pass_start = Shift(hist.pass_start, d),
                                   !.prev_start = Shift(hist.prev_start, d),
                                   !.pass_end = Shift(hist.pass_end, d)]
    /\ UNCHANGED <<fmt, pc, config, temperature_celsius,
                   temperature_fahrenheit, humidity, pending, exit_error,
                   gpio, cleanup_calls, trace>>

LiveConstruct == Construct /\ Returns
LiveSample == GetEnvironmentMetrics /\ Returns
LiveReport == LogResults /\ Returns
LiveDisplay == UpdateLCDDisplay /\ Returns
LiveUpload == AdafruitUpload /\ Returns
LiveSleep == Rebased /\ Sleep /\ Returns

LiveNext ==
    \/ LiveConstruct
    \/ LiveSample
    \/ LiveReport
    \/ LiveDisplay
    \/ LiveUpload
    \/ LiveSleep
    \/ Rebase

(* the process keeps running: a step that can be taken is taken *)
LiveSpec == LiveInit /\ [][LiveNext]_vars /\ WF_vars(LiveNext)

Next ==
    \/ Construct
    \/ GetEnvironmentMetrics
    \/ LogResults
    \/ UpdateLCDDisplay
    \/ AdafruitUpload
    \/ Sleep
    \/ Interrupt
    \/ MainExcept
    \/ Cleanup
    \/ ProcessExit

Spec == Init /\ [][Next]_vars

(***************************************************************************)
(* The process as far as the loop: from the construction up to the point   *)
(* where Run is left, by an exception or by a stop request.  Every step of *)
(* the loop is taken with all its outcomes; what __main__ does once Run is *)
(* left (the except and finally clauses, Cleanup) is not taken.  Its       *)
(* states are those of Spec in which the loop has not yet been left or has *)
(* just been left.                                                         *)
(***************************************************************************)
StopRequest == pc \in LoopPositions /\ Interrupt

LoopNext ==
    \/ Construct
    \/ GetEnvironmentMetrics
    \/ LogResults
    \/ UpdateLCDDisplay
    \/ AdafruitUpload
    \/ Sleep
    \/ StopRequest

LoopSpec == Init /\ [][LoopNext]_vars


(***************************************************************************)
(* Properties.                                                             *)
(***************************************************************************)
Idx == 1..Len(trace)

IsTelemetry(ev) == ev.op \in {"feeds", "create_feed", "send_data"}

IsStep(ev) == ev.op = "step"

(* AdafruitUpload has been called in the current iteration *)
UploadRan == \E i \in Idx : trace[i] = Step("upload")

(* a publish pass was started in the current iteration *)
PassStarted == \E i \in Idx : trace[i].op = "gate" /\ trace[i].arg = "open"

IsPrefix(a, b) == Len(a) <= Len(b) /\ a = SubSeq(b, 1, Len(a))

KeyIndex(key) == CHOOSE i \in 1..Len(Keys) : Keys[i] = key

SensorErrorMessages == {ErrorMessage(code) : code \in SensorErrorCodes}

(* a stop request ended the upload step *)
PassInterrupted ==
    hist.error_at = "upload" /\ hist.error = "KeyboardInterrupt"

(* AdafruitUpload has decided whether to publish *)
GateDecided ==
    UploadRan /\ (Enabled(config.adafruit_enabled) => hist.gate_now # Unset)

(* C1: once AdafruitUpload has run in an iteration as far as its gate, a   *)
(* publish pass was started if and only if telemetry is enabled and, at    *)
(* the gate test, last_upload_at was unset or now >= last_upload_at +      *)
(* interval; without a pass no channel lookup, create or send is made.     *)
C1_PassIffGateOpen ==
    /\ GateDecided =>
          (PassStarted <=>
             /\ Enabled(config.adafruit_enabled)
             /\ \/ hist.gate_last = Unset
                \/ TimeOf(hist.gate_now) >=
                      TimeOf(hist.gate_last)
                         + config.upload_interval * SecondsPerMinute)
    /\ (UploadRan /\ ~PassStarted) => \A i \in Idx : ~IsTelemetry(trace[i])

(* a pass started exactly at the boundary now = last_upload_at + interval  *)
C1_Witness ==
    /\ UploadRan
    /\ PassStarted
    /\ hist.gate_last # Unset
    /\ TimeOf(hist.gate_now) =
          TimeOf(hist.gate_last) + config.upload_interval * SecondsPerMinute

(* C2: whenever a publish pass was started (and not ended by a stop        *)
(* request), last_upload_at has been set exactly once for that pass, to    *)
(* the time at which the pass ended, whether or not the channel calls of   *)
(* the pass succeeded.                                                     *)
C2_RecordedOncePerPass ==
    (hist.pass /\ ~PassInterrupted) =>
       /\ hist.records = 1
       /\ adafruit_last_upload = hist.pass_end

(* C3: a failing lookup, create or send on one channel is isolated: every  *)
(* metric after the failing one still gets its lookup and its send, and    *)
(* no error leaves the upload step (passes ended by a stop request set     *)
(* aside).                                                                 *)
C3_FailureIsolated ==
    \A i \in Idx :
       ( /\ IsTelemetry(trace[i])
         /\ trace[i].res \notin {"ok", "SIGINT"}
         /\ ~PassInterrupted ) =>
          /\ \A j \in (KeyIndex(trace[i].arg) + 1)..Len(Keys) :
                /\ \E m \in Idx : trace[m].op = "feeds" /\ trace[m].arg = Keys[j]
                /\ \E m \in Idx : /\ trace[m].op = "send_data"
                                  /\ trace[m].arg = Keys[j]
          /\ hist.error_at # "upload"

(* C4: the starts of two consecutive publish passes are at least the       *)
(* upload interval apart.                                                  *)
C4_PassesSeparated ==
    hist.prev_start # Unset =>
       TimeOf(hist.pass_start) - TimeOf(hist.prev_start) >=
          config.upload_interval * SecondsPerMinute

(* a second pass started after a pass in which a channel call had failed   *)
C4_Witness ==
    /\ hist.prev_start # Unset
    /\ hist.prev_failed

(* C5: when the lookup of a metric's channel fails with not-found, the     *)
(* next call creates a channel of that metric's name, and once the channel *)
(* is created the metric's value is sent exactly once in that pass, to the *)
(* created channel (a pass that a stop request ends between two of these   *)
(* calls makes only the first of them).                                   *)
C5_CreateThenSendOnce ==
    LET calls == SelectSeq(trace, IsTelemetry)
        EndedAfter(i) == PassInterrupted /\ i = Len(calls)
    IN  \A i \in 1..Len(calls) :
           ( /\ calls[i].op = "feeds"
             /\ calls[i].res = "RequestError404"
             /\ ~EndedAfter(i) ) =>
              /\ i + 1 <= Len(calls)
              /\ calls[i + 1].op = "create_feed"
              /\ calls[i + 1].arg = calls[i].arg
              /\ (calls[i + 1].res = "ok" /\ ~EndedAfter(i + 1)) =>
                    /\ Cardinality({m \in 1..Len(calls) :
                                       /\ calls[m].op = "send_data"
                                       /\ calls[m].arg = calls[i].arg}) = 1
                    /\ i + 2 <= Len(calls)
                    /\ calls[i + 2].op = "send_data"
                    /\ calls[i + 2].arg = calls[i].arg
                    /\ calls[i + 2].feed = "created"
                    /\ calls[i + 2].val = GetValueDict[calls[i].arg]

(* a not-found lookup followed by a successful create and a send *)
C5_Witness ==
    \E i \in Idx :
       /\ trace[i].op = "feeds"
       /\ trace[i].res = "RequestError404"
       /\ i + 2 <= Len(trace)
       /\ trace[i + 1].res = "ok"
       /\ trace[i + 2].op = "send_data"
       /\ trace[i + 2].res = "ok"

(* C6: a channel is created only when the lookup of that metric failed     *)
(* with not-found; a lookup that succeeds or fails otherwise is never      *)
(* followed by a create.                                                   *)
C6_CreateOnlyOnNotFound ==
    \A i \in Idx :
       trace[i].op = "create_feed" =>
          /\ i > 1
          /\ trace[i - 1].op = "feeds"
          /\ trace[i - 1].arg = trace[i].arg
          /\ trace[i - 1].res = "RequestError404"

(* the error message of an invalid reading has been passed to Log, and    *)
(* the call of Log ended by one of `results`                               *)
SensorErrorLogged(results) ==
    \E i \in Idx : /\ trace[i].op = "Log"
                   /\ trace[i].arg \in SensorErrorMessages
                   /\ trace[i].res \in results

(* C7 as stated: after an invalid sensor reading, and no stop request, the *)
(* stored celsius, fahrenheit and humidity are what they were before the   *)
(* sample, the error has been passed to Log, and no exception left the     *)
(* sample step.                                                            *)
C7_InvalidSampleNeverCrashes ==
    (hist.sample = "invalid" /\ hist.error # "KeyboardInterrupt") =>
       /\ reading = hist.before
       /\ SensorErrorLogged({"printed", "dropped", "IOError"})
       /\ ~(hist.error_at = "sample" /\ IsException(hist.error))

(* C7 amended: after an invalid sensor reading the stored celsius,         *)
(* fahrenheit and humidity are what they were before the sample and,       *)
(* unless a stop request ended the step first, the error has been passed   *)
(* to Log; an exception leaves the sample step only when console logging   *)
(* is enabled and the print of the message raised it; a step that was not  *)
(* ended early is followed by the report step.                             *)
C7_InvalidSampleKeepsReading ==
    hist.sample = "invalid" =>
       /\ reading = hist.before
       /\ \/ SensorErrorLogged({"printed", "dropped", "IOError", "SIGINT",
                                "interrupted"})
          \/ hist.error_at = "sample" /\ hist.error = "KeyboardInterrupt"
       /\ (hist.error_at = "sample" /\ IsException(hist.error)) =>
             /\ Enabled(config.console_enabled)
             /\ hist.error = "IOError"
             /\ SensorErrorLogged({"IOError"})
       /\ SensorErrorLogged({"IOError", "SIGINT"}) =>
             /\ Enabled(config.console_enabled)
             /\ hist.error_at = "sample"
       /\ SensorErrorLogged({"interrupted"}) =>
             /\ hist.error_at = "sample"
             /\ hist.error = "KeyboardInterrupt"
       /\ (SensorErrorLogged({"printed", "dropped"}) /\ Len(trace) = 3
             /\ hist.error = NoError) => pc = "report"

(* an invalid sample taken while a reading was stored *)
C7_Witness ==
    /\ hist.sample = "invalid"
    /\ pc = "report"
    /\ hist.before[1] # None

(* C8: where the reading is observed (report, display, upload) the three   *)
(* fields are all present or all absent.                                   *)
C8_ReadingAtomic ==
    pc \in {"report", "display", "upload"} =>
       \/ \A i \in 1..3 : reading[i] = None
       \/ \A i \in 1..3 : Truthy(reading[i])

(* the upload step observes a stored reading after an invalid sample *)
C8_Witness ==
    /\ pc = "upload"
    /\ hist.sample = "invalid"
    /\ Truthy(humidity)

(* the print of Cleanup raised *)
CleanupPrintRaised ==
    \E i \in Idx : /\ trace[i].op = "Log"
                   /\ trace[i].arg = "Shutting Down"
                   /\ trace[i].res = "IOError"

(* a stop request arrived when the loop had already been left: in the      *)
(* except or finally clause, or inside Cleanup (which then has not         *)
(* released the GPIO, or has ended on another exception than the loop)     *)
LateStop ==
    \/ hist.late # "none"
    \/ /\ pc = "exited"
       /\ cleanup_calls = 1
       /\ ~CleanupPrintRaised
       /\ (gpio # "cleaned" \/ exit_error # hist.error)

(* C9: once the loop has started, when the process has ended (no further   *)
(* stop request having arrived after the loop was left) Cleanup has run    *)
(* exactly once, to its end (the GPIO is released), and the exception that *)
(* left the loop is the one that reached the process boundary; Cleanup     *)
(* never runs twice, does not run before the loop is left, and nothing     *)
(* reaches the boundary before it.                                         *)
C9_CleanupOnceThenReraise ==
    /\ cleanup_calls <= 1
    /\ (hist.started /\ pc = "exited" /\ ~LateStop) =>
          /\ cleanup_calls = 1
          /\ gpio = "cleaned"
          /\ exit_error # NoError
          /\ exit_error = hist.error
    /\ pc \in LoopPositions \cup {"except", "finally"} => cleanup_calls = 0

(* the steps of one iteration in the order of Run *)
ExpectedSteps(cfg) ==
    <<Step("sample"), Step("report")>>
    \o (IF Enabled(cfg.display_enabled) THEN <<Step("display")>> ELSE <<>>)
    \o <<Step("upload"), Step("sleep")>>

(* the step a recorded call belongs to *)
Phase(ev) ==
    CASE ev.op = "step" ->
            (CASE ev.arg = "sample" -> 1 [] ev.arg = "report" -> 2
               [] ev.arg = "display" -> 3 [] ev.arg = "upload" -> 4
               [] ev.arg = "sleep" -> 5)
      [] ev.op = "read" -> 1
      [] ev.op = "Log" ->
            (CASE ev.arg \in SensorErrorMessages -> 1
               [] ev.arg = "Shutting Down" -> 6
               [] OTHER -> 2)
      [] ev.op \in {"lcd_clear", "lcd_display_string"} -> 3
      [] ev.op \in {"gate", "feeds", "create_feed", "send_data"} -> 4
      [] ev.op = "GPIO.cleanup" -> 6

(* C10: the steps of an iteration are taken in the order Sampling,         *)
(* Reporting, DisplayUpdate (only if the display is enabled),              *)
(* UploadAttempt (gate and channel calls only if telemetry is enabled),    *)
(* sleep; every call lies inside its own step, and Sampling starts again   *)
(* only after the sleep.                                                   *)
C10_StepsInOrder ==
    LET steps == SelectSeq(trace, IsStep)
        phase == [i \in Idx |-> Phase(trace[i])]
    IN  /\ IsPrefix(steps, ExpectedSteps(config))
        /\ \A i \in 1..(Len(trace) - 1) : phase[i] <= phase[i + 1]
        /\ \A i \in Idx :
              (~IsStep(trace[i]) /\ phase[i] <= 5) =>
                 /\ i > 1
                 /\ phase[i - 1] = phase[i]
        /\ \A i \in Idx :
              /\ phase[i] = 3 => Enabled(config.display_enabled)
              /\ (phase[i] = 4 /\ ~IsStep(trace[i])) =>
                    Enabled(config.adafruit_enabled)
        /\ (UploadRan /\ Enabled(config.adafruit_enabled)
                      /\ ~PassInterrupted) =>
              \E i \in Idx : trace[i].op = "gate"
        /\ pc = "sample" => steps \in {<<>>, ExpectedSteps(config)}
        /\ pc \in LoopPositions \ {"sample"} =>
              /\ Len(steps) < Len(ExpectedSteps(config))
              /\ ExpectedSteps(config)[Len(steps) + 1] = Step(pc)

(* a whole iteration with display and telemetry enabled has been run *)
C10_Witness ==
    /\ pc = "sample"
    /\ Enabled(config.display_enabled)
    /\ Enabled(config.adafruit_enabled)
    /\ SelectSeq(trace, IsStep) = ExpectedSteps(config)
    /\ PassStarted


(***************************************************************************)
(* End-to-end iteration.                                                   *)
(***************************************************************************)
CountOp(op) == Cardinality({i \in Idx : trace[i].op = op})

LogCount(text) ==
    Cardinality({i \in Idx : trace[i].op = "Log" /\ trace[i].arg = text})

IsLCD(ev) == ev.op \in {"lcd_clear", "lcd_display_string"}

(* the operation and argument of each recorded call of a sequence *)
Shape(calls) == [i \in 1..Len(calls) |-> <<calls[i].op, calls[i].arg>>]

(* C11: a completed iteration with display and telemetry enabled, a valid  *)
(* sample and the gate open has logged the reading once (timestamp and     *)
(* the three values, one Log call each), cleared the display once and then *)
(* written its two lines, and made one publish pass that sent each of the  *)
(* three values once; the iteration right after a pass, the interval not   *)
(* yet elapsed, makes no channel call.                                     *)
C11_OneIteration ==
    /\ ( /\ pc = "sample"
         /\ trace # <<>>
         /\ Enabled(config.display_enabled)
         /\ Enabled(config.adafruit_enabled)
         /\ hist.sample = "valid"
         /\ PassStarted ) =>
          /\ \A text \in {"timestamp", "celsius", "Fahrenheit", "Humidity"} :
                LogCount(text) = 1
          /\ CountOp("Log") = 4
          /\ Shape(SelectSeq(trace, IsLCD)) =
                <<<<"lcd_clear", "none">>, <<"lcd_display_string", "1">>,
                  <<"lcd_display_string", "2">>>>
          /\ CountOp("gate") = 1
          /\ CountOp("send_data") = 3
          /\ \A key \in KeySet :
                \E i \in Idx : /\ trace[i].op = "send_data"
                               /\ trace[i].arg = key
                               /\ trace[i].val = GetValueDict[key]
                               /\ trace[i].res = "ok"
    /\ ( /\ GateDecided
         /\ Enabled(config.adafruit_enabled)
         /\ hist.prev_pass
         /\ TimeOf(hist.gate_now) <
               TimeOf(hist.gate_last)
                  + config.upload_interval * SecondsPerMinute ) =>
          /\ ~PassStarted
          /\ \A i \in Idx : ~IsTelemetry(trace[i])

(* the iteration after one with a pass that sent a reading has completed   *)
(* without a pass                                                          *)
C11_Witness ==
    /\ pc = "sample"
    /\ Enabled(config.display_enabled)
    /\ Enabled(config.adafruit_enabled)
    /\ hist.prev_pass
    /\ Truthy(hist.before[1])
    /\ UploadRan
    /\ ~PassStarted
    /\ CountOp("lcd_clear") = 1


(***************************************************************************)
(* Stop request.                                                           *)
(***************************************************************************)
(* C12 as stated: a stop request is acted on only at the sleep between     *)
(* two iterations (during the sleep, or before the next Sampling begins),  *)
(* never after an iteration has begun Sampling and before its sleep.       *)
C12_StopOnlyAtSleep ==
    hist.error = "KeyboardInterrupt" =>
       \/ hist.error_at = "sleep"
       \/ /\ hist.error_at = "sample"
          /\ SelectSeq(trace, IsStep) \in {<<>>, ExpectedSteps(config)}

(* C12 amended: a stop request is acted on wherever the loop is, between   *)
(* two steps or while a step runs; the steps of the iteration not yet run  *)
(* are skipped, no further step is taken, and Cleanup is called once       *)
(* before the process ends, unless a further stop request arrives in the   *)
(* finally clause before the call; the process ends on the interrupt       *)
(* unless the print of Cleanup raised.                                     *)
C12_StopAnywhereThenCleanup ==
    hist.error = "KeyboardInterrupt" =>
       LET steps == SelectSeq(trace, IsStep)
           expected == ExpectedSteps(config)
       IN  /\ pc \in {"finally", "propagate", "exited"}
           /\ IsPrefix(steps, expected)
           /\ \/ (* while the step ran *)
                 /\ steps # <<>>
                 /\ steps[Len(steps)] = Step(hist.error_at)
              \/ (* before the step began *)
                 /\ Len(steps) < Len(expected)
                 /\ expected[Len(steps) + 1] = Step(hist.error_at)
              \/ (* before the next iteration began *)
                 /\ steps = expected
                 /\ hist.error_at = "sample"
           /\ pc = "finally" => cleanup_calls = 0
           /\ pc = "propagate" => cleanup_calls = 1
           /\ pc = "exited" =>
                 /\ cleanup_calls = IF hist.late = "finally" THEN 0 ELSE 1
                 /\ exit_error = IF CleanupPrintRaised THEN "IOError"
                                 ELSE "KeyboardInterrupt"
           /\ hist.late \in {"none", "finally", "propagate"}

(* the process ended on a stop request that arrived while the upload step  *)
(* was sending the second value of a pass                                  *)
C12_Witness ==
    /\ hist.error = "KeyboardInterrupt"
    /\ hist.error_at = "upload"
    /\ \E i \in Idx : /\ trace[i].op = "send_data"
                      /\ trace[i].arg = Keys[2]
                      /\ trace[i].res = "SIGINT"
    /\ adafruit_last_upload = Unset
    /\ pc = "exited"
    /\ exit_error = "KeyboardInterrupt"
    /\ cleanup_calls = 1


(***************************************************************************)
(* Construction.                                                           *)
(***************************************************************************)
(* C13: with an unrecognized sensor type the construction of the monitor   *)
(* fails before any iteration: the loop is never entered, no sensor read,  *)
(* log, display update or upload is ever made, and the process ends on the *)
(* exception of SetupSesnors (or on a stop request that arrived before     *)
(* SetupSesnors was reached).                                              *)
C13_BadSensorFailsAtStartup ==
    config.sensor_type # "DHT11" =>
       /\ ~hist.started
       /\ pc \in {"start", "exited"}
       /\ trace = <<>>
       /\ reading = <<None, None, None>>
       /\ adafruit_last_upload = Unset
       /\ pc = "exited" => exit_error \in {"Exception", "KeyboardInterrupt"}
       /\ (pc = "exited" /\ exit_error = "Exception") => gpio = "BCM"

(* the process has ended on the configuration error *)
C13_Witness ==
    /\ config.sensor_type = "DHT22"
    /\ pc = "exited"
    /\ exit_error = "Exception"
    /\ trace = <<>>

(* C18: when the construction fails after GPIO.setmode, Cleanup is never   *)
(* executed and the GPIO state is not released.                            *)
C18_NoCleanupOnFailedConstruction ==
    ~hist.started =>
       /\ cleanup_calls = 0
       /\ gpio # "cleaned"
       /\ \A i \in Idx : trace[i].op # "GPIO.cleanup"
       /\ (pc = "exited" /\ exit_error # "KeyboardInterrupt") => gpio = "BCM"
       /\ (pc = "exited" /\ gpio = "unset") => ~IsException(exit_error)

(* the process has ended with the GPIO mode set and no Cleanup *)
C18_Witness ==
    /\ ~hist.started
    /\ pc = "exited"
    /\ IsException(exit_error)
    /\ gpio = "BCM"
    /\ cleanup_calls = 0


(***************************************************************************)
(* Calibration and conversion.                                             *)
(***************************************************************************)
(* C14: after a valid sample the stored celsius is the formatted           *)
(* raw temperature + offset, the stored humidity the formatted raw         *)
(* humidity + offset, and the stored fahrenheit the formatted              *)
(* (raw temperature + offset) * 9/5 + 32, taken from the unformatted       *)
(* celsius; raw (22.0, 50.0) with offsets (+0.5, -1.0) gives "22.5",       *)
(* "72.5", "49".                                                           *)
C14_CalibratedReading ==
    hist.sample = "valid" =>
       LET t == hist.raw[1] + config.temperature_calibration
           h == hist.raw[2] + config.humidity_calibration
       IN  /\ temperature_celsius = _FormatResult(10 * t)
           /\ humidity = _FormatResult(10 * h)
           /\ temperature_fahrenheit =
                 _FormatResult(((10 * t * 9) \div 5) + 3200)
           /\ (hist.raw = <<220, 500>> /\ t = 225 /\ h = 490) =>
                 reading = << <<"2", "2", ".", "5">>,
                              <<"7", "2", ".", "5">>,
                              <<"4", "9">> >>
           /\ (hist.raw[1] = 1000 /\ t = 1005) =>
                 /\ temperature_celsius = <<"1", "0", "0">>
                 /\ temperature_fahrenheit = <<"2", "1", "3">>

(* a valid sample whose formatted celsius (100) has lost the digit that    *)
(* decides the fahrenheit value (212.9)                                    *)
C14_Witness ==
    /\ hist.sample = "valid"
    /\ pc = "report"
    /\ hist.raw[1] = 1000
    /\ temperature_fahrenheit = <<"2", "1", "3">>


(***************************************************************************)
(* The formatter.                                                          *)
(***************************************************************************)
DigitOf(ch) == CHOOSE d \in 0..9 : DigitChars[d + 1] = ch

IsDigit(ch) == \E d \in 0..9 : DigitChars[d + 1] = ch

RECURSIVE IntOf(_)
IntOf(digits) ==
    IF digits = <<>> THEN 0
    ELSE 10 * IntOf(SubSeq(digits, 1, Len(digits) - 1))
         + DigitOf(digits[Len(digits)])

(* k * 10^p with no factor 10 left in k *)
RECURSIVE Normal(_, _)
Normal(k, p) ==
    IF k = 0 THEN <<0, 0>>
    ELSE IF k % 10 = 0 THEN Normal(k \div 10, p + 1)
    ELSE <<k, p>>

PositionOf(text, ch) ==
    IF Contains(text, ch) THEN CHOOSE i \in 1..Len(text) : text[i] = ch ELSE 0

(* the number a formatted text denotes, as Normal(k, p) *)
Denotes(text) ==
    LET epos == PositionOf(text, "e")
        mant == IF epos = 0 THEN text ELSE SubSeq(text, 1, epos - 1)
        expo == IF epos = 0 THEN <<>> ELSE SubSeq(text, epos + 1, Len(text))
        neg == mant # <<>> /\ mant[1] = "-"
        dpos == PositionOf(mant, ".")
        fraclen == IF dpos = 0 THEN 0 ELSE Len(mant) - dpos
        k == IntOf(SelectSeq(mant, IsDigit))
        x == IF expo = <<>> THEN 0
             ELSE IF expo[1] = "-" THEN -IntOf(SelectSeq(expo, IsDigit))
             ELSE IntOf(SelectSeq(expo, IsDigit))
    IN  Normal(IF neg THEN -k ELSE k, x - fraclen)

(* n * 10^x rounded to three significant digits, as Normal(k, p) *)
Rounded3(n, x) ==
    IF n = 0 THEN <<0, 0>>
    ELSE LET sg == Sig3(Abs(n), x)
         IN  Normal(IF n < 0 THEN -sg.m ELSE sg.m, sg.e + x)

(* the digits after the decimal point of the text, up to an exponent *)
Fraction(text) ==
    LET epos == PositionOf(text, "e")
        mant == IF epos = 0 THEN text ELSE SubSeq(text, 1, epos - 1)
        dpos == PositionOf(mant, ".")
    IN  IF dpos = 0 THEN <<>> ELSE SubSeq(mant, dpos + 1, Len(mant))

(* C15: the text returned by the formatter denotes its argument rounded to *)
(* three significant digits (stripping trailing zeros has not changed the  *)
(* magnitude), and has no trailing zero digit after a decimal point.       *)
C15_FormatKeepsMagnitude ==
    pc = "formatted" =>
       /\ Denotes(fmt.text) = Rounded3(fmt.value, fmt.exp)
       /\ LET frac == Fraction(fmt.text)
          IN  frac # <<>> => frac[Len(frac)] # "0"


(***************************************************************************)
(* A pass before any sample has succeeded.                                 *)
(***************************************************************************)
HasTelemetry == \E i \in Idx : IsTelemetry(trace[i])

(* C16: a pass entered while the three reading fields are absent makes no  *)
(* feed lookup, create or send, and (unless a stop request ends it) still  *)
(* sets adafruit_last_upload to the clock at its end; the pass that        *)
(* follows it, the first to send a reading, is at least one upload         *)
(* interval after that time.                                               *)
C16_EmptyPassStartsInterval ==
    /\ (UploadRan /\ hist.pass /\ hist.empty = "latest") =>
          /\ ~HasTelemetry
          /\ ~PassInterrupted =>
                /\ hist.records = 1
                /\ adafruit_last_upload = hist.pass_end
          /\ pc = "sleep" => adafruit_last_upload = At(now)
    /\ (UploadRan /\ hist.pass /\ hist.empty = "before") =>
          /\ hist.gate_last # Unset
          /\ hist.gate_now[1] >=
                hist.gate_last[1] + config.upload_interval * SecondsPerMinute

(* the first reading is sent one interval after a pass that sent nothing *)
C16_Witness ==
    /\ pc = "sleep"
    /\ hist.pass /\ hist.empty = "before"
    /\ \E i \in Idx : trace[i].op = "send_data" /\ trace[i].res = "ok"
    /\ hist.gate_last # Unset
    /\ hist.gate_now[1] >= hist.gate_last[1] + SecondsPerMinute


(***************************************************************************)
(* What a pass sends.                                                      *)
(***************************************************************************)
(* the fields, by key, that the latest valid sensor result gave *)
LatestSample ==
    LET t == hist.raw[1] + config.temperature_calibration
        h == hist.raw[2] + config.humidity_calibration
    IN  [key \in KeySet |->
            CASE key = "celsius" -> _FormatResult(10 * t)
              [] key = "fahrenheit" -> _FormatResult((t * 18) + 3200)
              [] key = "humidity" -> _FormatResult(10 * h)]

SentKeys == {trace[i].arg : i \in {j \in Idx : trace[j].op = "send_data"}}

(* C17: every value sent is the field, under its key, of the most recent   *)
(* valid sample, and a pass that returns has sent all three; when this     *)
(* iteration's sample was invalid and the gate is open the pass is not     *)
(* skipped: it sends the reading stored before the sample.                 *)
C17_SendsLatestValidSample ==
    /\ \A i \in Idx :
          trace[i].op = "send_data" =>
             /\ hist.raw # <<>>
             /\ trace[i].val = LatestSample[trace[i].arg]
             /\ \A j \in Idx :
                   (trace[j].op = "send_data" /\ trace[j].arg = trace[i].arg)
                      => j = i
    /\ (hist.pass /\ hist.records = 1 /\ hist.raw # <<>>) => SentKeys = KeySet
    /\ (hist.sample = "invalid" /\ hist.pass /\ Truthy(hist.before[1])) =>
          /\ ~PassInterrupted => HasTelemetry
          /\ \A i \in Idx :
                trace[i].op = "send_data" =>
                   trace[i].val = hist.before[CASE trace[i].arg = "celsius" -> 1
                                                [] trace[i].arg = "fahrenheit" -> 2
                                                [] trace[i].arg = "humidity" -> 3]
          /\ hist.records = 1 => SentKeys = KeySet

(* a pass after an invalid sample has sent the three stored fields, and    *)
(* the celsius and fahrenheit sent differ                                  *)
C17_Witness ==
    /\ pc = "sleep"
    /\ hist.sample = "invalid"
    /\ hist.pass /\ hist.records = 1
    /\ SentKeys = KeySet
    /\ \E i, j \in Idx :
          /\ trace[i].op = "send_data" /\ trace[i].arg = "fahrenheit"
          /\ trace[j].op = "send_data" /\ trace[j].arg = "celsius"
          /\ trace[i].val = hist.before[2]
          /\ trace[j].val = hist.before[1]
          /\ trace[i].val # trace[j].val


(***************************************************************************)
(* Progress of the loop.                                                   *)
(***************************************************************************)
(* C19: with telemetry enabled, every call returning and no exception      *)
(* leaving a step, the loop starts a new iteration again and again (it     *)
(* never ends in a terminal state, which no iteration follows), and again  *)
(* and again an iteration makes a publish pass: after every pass the gate  *)
(* reopens and a later iteration uploads.                                  *)
C19_PassesInfinitelyOften ==
    /\ []<>(pc = "sample")
    /\ []<>(pc = "sleep" /\ hist.pass /\ hist.records = 1)

(* a pass made by a later iteration than the first pass, after iterations  *)
(* that found the gate closed                                              *)
C19_Witness ==
    /\ pc = "sleep"
    /\ hist.pass /\ hist.records = 1
    /\ ~hist.prev_pass
    /\ hist.prev_start # Unset
    /\ hist.gate_last # Unset
    /\ TimeOf(hist.gate_now) >=
          TimeOf(hist.gate_last) + config.upload_interval * SecondsPerMinute

=============================================================================
